---- MODULE Spec2Model ----
(***************************************************************************)
(* Shortest-path routines of Fundamentals :: Algorithms :: Graph.          *)
(*   bellman_ford(g, start_id)    Source/Algorithms/Graph/bellman-ford.py  *)
(*   dijkstra(g, startID, endID)  Source/Algorithms/Graph/dijkstra.py      *)
(* A caller builds a graph (declared vertex ids and an ordered edge list), *)
(* calls bellman_ford on it and then dijkstra on the same vertices and     *)
(* edges.  Each loop iteration of the two functions is one step.           *)
(*   quicksort(a, low, high)      Source/Algorithms/sorting.py             *)
(* is a specification of its own (SpecQS), one step per loop test.         *)
(***************************************************************************)
EXTENDS Integers, Sequences, FiniteSets, TLC

\* ---------------------------------------------------------------- bounds
NumVertices == 3
MaxEdges == 2
MaxWeight == 1
MaxLen == 4
MaxValue == 2

Ids == 0 .. (NumVertices - 1)
Weights == (0 - MaxWeight) .. MaxWeight

\* ------------------------------------------------- values of the program
\* float('Infinity'): larger than every finite distance of the model.
Infinity == 1000
\* Python's None, as a dictionary value that is no vertex id and no distance.
None == -1000

VARIABLES
  vertices,   \* keys of g.vertices (bellman-ford) = keys of g.nodes (dijkstra)
  edges,      \* g.edges: the ordered edge list, records [source, dest, weight]
  start_id,   \* the start id handed to both functions
  pc,         \* position of the caller / of the running function
  dists,      \* bellman_ford: dists
  prevs,      \* bellman_ford: prevs
  i,          \* bellman_ford: pass counter of `for i in range(1, len(g.vertices))`
  k,          \* bellman_ford: index in g.edges of the edge examined next
  bf_result,  \* <<>> while running; <<"return", dists, prevs>>,
              \* <<"NegativeEdgeCycleError", a, b>> or <<"KeyError", key>>
  endID,      \* dijkstra: endID
  dj_dists,   \* dijkstra: dists
  dj_prevs,   \* dijkstra: prevs (the id of the node stored)
  nodePQ,     \* dijkstra: the priority queue, as the sorted sequence of its tuples
  currentNode,\* dijkstra: currentNode.id
  j,          \* dijkstra: index in currentNode.edges of the edge examined next
  path_back,  \* dijkstra: path_back
  puts,       \* dijkstra: how often nodePQ.put was called with each node id
  dj_result,  \* <<>> while running; <<"return", path, dist>>, <<"return_none">>
              \* or <<"KeyError", key>>
  a,          \* quicksort: the list a, sorted in place
  a_in,       \* quicksort: the list as the caller handed it over
  qs_low,     \* quicksort: low of the caller's call
  qs_high,    \* quicksort: high of the caller's call
  qs_stack,   \* quicksort: the frames of the calls in progress, innermost last
  pivot,      \* _quicksort_partition: pivot
  idx_l,      \* _quicksort_partition: idx_l
  idx_r       \* _quicksort_partition: idx_r

vars == <<vertices, edges, start_id, pc, dists, prevs, i, k, bf_result,
          endID, dj_dists, dj_prevs, nodePQ, currentNode, j, path_back, puts,
          dj_result, a, a_in, qs_low, qs_high, qs_stack, pivot, idx_l, idx_r>>

bfVars == <<dists, prevs, i, k, bf_result>>
djVars == <<endID, dj_dists, dj_prevs, nodePQ, currentNode, j, path_back, puts,
           dj_result>>
graphVars == <<vertices, edges, start_id>>
qsVars == <<a, a_in, qs_low, qs_high, qs_stack, pivot, idx_l, idx_r>>

\* ------------------------------------------------------------ the graphs
Edge(source, dest, weight) == [source |-> source, dest |-> dest, weight |-> weight]

EdgeSet == {Edge(s, d, w) : s \in Ids, d \in Ids, w \in Weights}

EdgeLists == UNION {[1 .. n -> EdgeSet] : n \in 0 .. MaxEdges}

\* The graph of the documented example: 0->1 (1), 1->2 (2), 0->2 (5), 2->3 (1).
ScenarioVertices == 0 .. 3
ScenarioEdges == <<Edge(0, 1, 1), Edge(1, 2, 2), Edge(0, 2, 5), Edge(2, 3, 1)>>

\* The example's edges in every order of the edge list.
ScenarioEdgeLists ==
  {[n \in 1 .. 4 |-> ScenarioEdges[p[n]]] : p \in Permutations(1 .. 4)}

\* ------------------------------------------------------------ dictionaries
\* d[key] = value: the key is added when it is absent.
DictSet(d, key, value) ==
  [x \in (DOMAIN d) \cup {key} |-> IF x = key THEN value ELSE d[x]]

\* Variant: infinity as a large finite number that a weight can lower.
PlusNoInfinity(d, w) == d + w
\* Float addition dists[..] + e.weight: infinity absorbs every finite weight.
Plus(d, w) == IF d = Infinity THEN Infinity ELSE d + w

\* ------------------------------------------------------------ bellman_ford
\* Position at the head of the scan of lines 108-110.
BFCheckStart == IF Len(edges) >= 1 THEN "bf_check" ELSE "bf_return"

\* Position at the head of the passes of lines 98-103.
BFAfterInit ==
  IF Cardinality(vertices) > 1 /\ Len(edges) >= 1 THEN "bf_relax" ELSE BFCheckStart

\* Variant: one pass fewer, range(2, len(g.vertices)).
BFLastPassOneFewer(ii) == ii + 1 >= Cardinality(vertices) - 1
\* range(1, len(g.vertices)) is exhausted after pass ii.
BFLastPass(ii) == ii + 1 >= Cardinality(vertices)

BFInit ==
  /\ pc = "start"
  /\ dists' = DictSet([key \in vertices |-> Infinity], start_id, 0)
  /\ prevs' = [key \in vertices |-> None]
  /\ i' = 1
  /\ k' = 1
  /\ pc' = BFAfterInit
  /\ UNCHANGED <<bf_result, graphVars, djVars, qsVars>>

BFRaise(exc) ==
  /\ bf_result' = exc
  /\ pc' = "bf_done"
  /\ UNCHANGED <<dists, prevs, i, k>>

\* The comparison of line 101.
Relaxable(dd, dist_start_dest) == dd > dist_start_dest

BFRelax ==
  /\ pc = "bf_relax"
  /\ LET e == edges[k] IN
       IF e.source \notin DOMAIN dists
       THEN BFRaise(<<"KeyError", e.source>>)
       ELSE IF e.dest \notin DOMAIN dists
       THEN BFRaise(<<"KeyError", e.dest>>)
       ELSE LET dist_start_dest == Plus(dists[e.source], e.weight) IN
            /\ IF Relaxable(dists[e.dest], dist_start_dest)
               THEN /\ dists' = DictSet(dists, e.dest, dist_start_dest)
                    /\ prevs' = DictSet(prevs, e.dest, e.source)
               ELSE UNCHANGED <<dists, prevs>>
            /\ IF k < Len(edges)
               THEN /\ k' = k + 1
                    /\ UNCHANGED <<i, pc>>
               ELSE IF BFLastPass(i)
               THEN /\ k' = 1
                    /\ pc' = BFCheckStart
                    /\ UNCHANGED i
               ELSE /\ k' = 1
                    /\ i' = i + 1
                    /\ UNCHANGED pc
            /\ UNCHANGED bf_result
  /\ UNCHANGED <<graphVars, djVars, qsVars>>

\* Variant: the check of lines 108-110 left out.
StillRelaxableNever(ds, w, dd) == FALSE
\* The comparison of line 109.
StillRelaxable(ds, w, dd) == Plus(ds, w) < dd

BFCheck ==
  /\ pc = "bf_check"
  /\ LET e == edges[k] IN
       IF e.source \notin DOMAIN dists
       THEN BFRaise(<<"KeyError", e.source>>)
       ELSE IF e.dest \notin DOMAIN dists
       THEN BFRaise(<<"KeyError", e.dest>>)
       ELSE IF StillRelaxable(dists[e.source], e.weight, dists[e.dest])
       THEN BFRaise(<<"NegativeEdgeCycleError", e.source, e.dest>>)
       ELSE /\ IF k < Len(edges)
               THEN k' = k + 1 /\ UNCHANGED pc
               ELSE k' = k /\ pc' = "bf_return"
            /\ UNCHANGED <<dists, prevs, i, bf_result>>
  /\ UNCHANGED <<graphVars, djVars, qsVars>>

BFReturn ==
  /\ pc = "bf_return"
  /\ bf_result' = <<"return", dists, prevs>>
  /\ pc' = "bf_done"
  /\ UNCHANGED <<dists, prevs, i, k, graphVars, djVars, qsVars>>

\* ---------------------------------------------------------------- dijkstra
\* currentNode.edges: the edges leaving a node, in the order they were appended.
IsFrom(id, e) == e.source = id
NodeEdges(id) == SelectSeq(edges, LAMBDA e : IsFrom(id, e))

\* Order of the tuples (dist, id) in the queue.
TupleLess(x, y) == x[1] < y[1] \/ (x[1] = y[1] /\ x[2] < y[2])

\* nodePQ.put(item): the queue stays sorted, nodePQ.get() takes its head.
PQPut(q, item) ==
  LET before == SelectSeq(q, LAMBDA x : ~TupleLess(item, x))
      after == SelectSeq(q, LAMBDA x : TupleLess(item, x))
  IN before \o <<item>> \o after

\* One more call of nodePQ.put with the node id.
Counted(c, id) == DictSet(c, id, IF id \in DOMAIN c THEN c[id] + 1 ELSE 1)

\* Position at the head of `while not nodePQ.empty()`.
DJLoopHead(q) == IF q = <<>> THEN "dj_end" ELSE "dj_pop"

DJRaise(exc) ==
  /\ dj_result' = exc
  /\ pc' = "dj_done"

DJInit ==
  /\ pc = "bf_done"
  /\ \E t \in Ids \cup vertices : endID' = t
  /\ dj_prevs' = [key \in vertices |-> None]
  /\ dj_dists' = DictSet([key \in vertices |-> None], start_id, 0)
  /\ IF start_id \notin vertices
     THEN /\ DJRaise(<<"KeyError", start_id>>)
          /\ UNCHANGED <<nodePQ, puts>>
     ELSE /\ nodePQ' = PQPut(<<>>, <<0, start_id>>)
          /\ puts' = Counted(puts, start_id)
          /\ pc' = "dj_pop"
          /\ UNCHANGED dj_result
  /\ UNCHANGED <<currentNode, j, path_back, graphVars, bfVars, qsVars>>

\* The test of line 92.
IsEnd(id) == id = endID

DJPop ==
  /\ pc = "dj_pop"
  /\ LET currentNodeID == Head(nodePQ)[2] IN
       /\ nodePQ' = Tail(nodePQ)
       /\ currentNode' = currentNodeID
       /\ j' = 1
       /\ IF currentNodeID \notin vertices
          THEN DJRaise(<<"KeyError", currentNodeID>>)
          ELSE /\ pc' = IF IsEnd(currentNodeID) THEN "dj_end"
                        ELSE IF NodeEdges(currentNodeID) = <<>>
                        THEN DJLoopHead(Tail(nodePQ))
                        ELSE "dj_edge"
               /\ UNCHANGED dj_result
  /\ UNCHANGED <<endID, dj_dists, dj_prevs, path_back, puts, graphVars, bfVars, qsVars>>

\* Variant: the test of line 98 left out.
VisitAlways(dest) == TRUE
\* Variant: the test of line 98 inverted (is not None).
AlreadyVisited(dest) == dj_prevs[dest] # None
\* The test of line 98.
NotVisited(dest) == dj_prevs[dest] = None

DJEdge ==
  /\ pc = "dj_edge"
  /\ LET edge == NodeEdges(currentNode)[j]
         last == j = Len(NodeEdges(currentNode))
     IN
       IF edge.dest \notin DOMAIN dj_prevs
       THEN /\ DJRaise(<<"KeyError", edge.dest>>)
            /\ UNCHANGED <<dj_dists, dj_prevs, nodePQ, j, puts>>
       ELSE LET dist == dj_dists[currentNode] + edge.weight
                visit == NotVisited(edge.dest)
                q == IF visit THEN PQPut(nodePQ, <<dist, edge.dest>>) ELSE nodePQ
            IN
              /\ IF visit
                 THEN /\ dj_dists' = DictSet(dj_dists, edge.dest, dist)
                      /\ dj_prevs' = DictSet(dj_prevs, edge.dest, currentNode)
                      /\ puts' = Counted(puts, edge.dest)
                 ELSE UNCHANGED <<dj_dists, dj_prevs, puts>>
              /\ nodePQ' = q
              /\ IF last
                 THEN j' = j /\ pc' = DJLoopHead(q)
                 ELSE j' = j + 1 /\ UNCHANGED pc
              /\ UNCHANGED dj_result
  /\ UNCHANGED <<endID, currentNode, path_back, graphVars, bfVars, qsVars>>

\* Lines 108-114: the end node was never reached, or the walk back starts.
DJEnd ==
  /\ pc = "dj_end"
  /\ IF endID \notin DOMAIN dj_prevs
     THEN /\ DJRaise(<<"KeyError", endID>>)
          /\ UNCHANGED <<path_back, currentNode>>
     ELSE IF dj_prevs[endID] = None
     THEN /\ dj_result' = <<"return_none">>
          /\ pc' = "dj_done"
          /\ UNCHANGED <<path_back, currentNode>>
     ELSE /\ path_back' = <<endID>>
          /\ currentNode' = endID
          /\ pc' = "dj_walk"
          /\ UNCHANGED dj_result
  /\ UNCHANGED <<endID, dj_dists, dj_prevs, nodePQ, j, puts, graphVars, bfVars, qsVars>>

Reverse(s) == [n \in 1 .. Len(s) |-> s[Len(s) + 1 - n]]

\* Lines 116-120: one step back along prevs, or the return at the start node.
DJWalk ==
  /\ pc = "dj_walk"
  /\ IF currentNode # start_id
     THEN IF dj_prevs[currentNode] = None
          THEN /\ DJRaise(<<"AttributeError", currentNode>>)
               /\ UNCHANGED <<currentNode, path_back>>
          ELSE /\ currentNode' = dj_prevs[currentNode]
               /\ path_back' = Append(path_back, dj_prevs[currentNode])
               /\ UNCHANGED <<pc, dj_result>>
     ELSE /\ dj_result' = <<"return", Reverse(path_back), dj_dists[endID]>>
          /\ pc' = "dj_done"
          /\ UNCHANGED <<currentNode, path_back>>
  /\ UNCHANGED <<endID, dj_dists, dj_prevs, nodePQ, j, puts, graphVars, bfVars, qsVars>>

\* --------------------------------------------------------------- quicksort
Values == 0 .. MaxValue

Lists == UNION {[1 .. n -> Values] : n \in 0 .. MaxLen}

\* A frame of quicksort(a, low, high): `at` is "body" before the partition,
\* "partitioned" once idx_p is set, "left" and "right" during the two calls.
Frame(low, high) == [low |-> low, high |-> high, idx_p |-> None, at |-> "body"]

Top == qs_stack[Len(qs_stack)]

SetTop(f) == [qs_stack EXCEPT ![Len(qs_stack)] = f]

\* a[n] of a Python list: negative n counts from the end.
InRange(n) == (0 - Len(a)) <= n /\ n < Len(a)
Item(n) == IF n < 0 THEN a[Len(a) + n + 1] ELSE a[n + 1]

PivotIndexLow(low, high) == low
\* The index of line 64.
PivotIndex(low, high) == (low + high) \div 2

QSRaise ==
  /\ pc' = "qs_error"
  /\ UNCHANGED <<a, qs_stack, pivot, idx_l, idx_r>>

\* Lines 31-32 and 64-67: the edge case, or the start of the partition.
QSEnter ==
  /\ pc = "qs_call"
  /\ IF Top.high > Top.low + 1
     THEN IF InRange(PivotIndex(Top.low, Top.high))
          THEN /\ pivot' = Item(PivotIndex(Top.low, Top.high))
               /\ idx_l' = Top.low
               /\ idx_r' = Top.high - 1
               /\ pc' = "qs_scan_l"
               /\ UNCHANGED <<a, qs_stack>>
          ELSE QSRaise
     ELSE /\ pc' = "qs_return"
          /\ UNCHANGED <<a, qs_stack, pivot, idx_l, idx_r>>
  /\ UNCHANGED <<a_in, qs_low, qs_high, graphVars, bfVars, djVars>>

\* Lines 70-71.
QSScanLeft ==
  /\ pc = "qs_scan_l"
  /\ IF ~InRange(idx_l)
     THEN QSRaise
     ELSE /\ IF Item(idx_l) < pivot
             THEN idx_l' = idx_l + 1 /\ UNCHANGED pc
             ELSE pc' = "qs_scan_r" /\ UNCHANGED idx_l
          /\ UNCHANGED <<a, qs_stack, pivot, idx_r>>
  /\ UNCHANGED <<a_in, qs_low, qs_high, graphVars, bfVars, djVars>>

\* Lines 73-74.
QSScanRight ==
  /\ pc = "qs_scan_r"
  /\ IF ~InRange(idx_r)
     THEN QSRaise
     ELSE /\ IF Item(idx_r) > pivot
             THEN idx_r' = idx_r - 1 /\ UNCHANGED pc
             ELSE pc' = "qs_test" /\ UNCHANGED idx_r
          /\ UNCHANGED <<a, qs_stack, pivot, idx_l>>
  /\ UNCHANGED <<a_in, qs_low, qs_high, graphVars, bfVars, djVars>>

\* a[m], a[n] = a[n], a[m]
Swap(s, m, n) == [s EXCEPT ![m + 1] = s[n + 1], ![n + 1] = s[m + 1]]

MetStrict(l, r) == r < l
\* The test of line 76.
Met(l, r) == r <= l

\* Lines 76-84: the indexes met (return idx_l), or a swap and one step inwards.
QSTest ==
  /\ pc = "qs_test"
  /\ IF Met(idx_l, idx_r)
     THEN /\ qs_stack' = SetTop([Top EXCEPT !.idx_p = idx_l, !.at = "partitioned"])
          /\ pc' = "qs_partitioned"
          /\ UNCHANGED <<a, idx_l, idx_r>>
     ELSE /\ a' = Swap(a, idx_l, idx_r)
          /\ idx_l' = idx_l + 1
          /\ idx_r' = idx_r - 1
          /\ pc' = "qs_scan_l"
          /\ UNCHANGED qs_stack
  /\ UNCHANGED <<pivot, a_in, qs_low, qs_high, graphVars, bfVars, djVars>>

\* Line 33: quicksort(a, low, idx_p).
QSRecurseLeft ==
  /\ pc = "qs_partitioned"
  /\ qs_stack' = Append(SetTop([Top EXCEPT !.at = "left"]), Frame(Top.low, Top.idx_p))
  /\ pc' = "qs_call"
  /\ UNCHANGED <<a, pivot, idx_l, idx_r, a_in, qs_low, qs_high, graphVars, bfVars, djVars>>

\* A call returns: to the caller, to line 34 (quicksort(a, idx_p, high)), or
\* to the end of the calling frame.
QSReturn ==
  /\ pc = "qs_return"
  /\ LET rest == SubSeq(qs_stack, 1, Len(qs_stack) - 1) IN
       IF rest = <<>>
       THEN /\ qs_stack' = rest
            /\ pc' = "qs_done"
       ELSE LET parent == rest[Len(rest)] IN
            IF parent.at = "left"
            THEN /\ qs_stack' = Append([rest EXCEPT ![Len(rest)].at = "right"],
                                       Frame(parent.idx_p, parent.high))
                 /\ pc' = "qs_call"
            ELSE /\ qs_stack' = rest
                 /\ UNCHANGED pc
  /\ UNCHANGED <<a, pivot, idx_l, idx_r, a_in, qs_low, qs_high, graphVars, bfVars, djVars>>

\* ------------------------------------------------------- paths of the graph
\* Every id the graph or the call mentions.
AllIds ==
  vertices \cup {start_id}
    \cup {edges[n].source : n \in DOMAIN edges} \cup {edges[n].dest : n \in DOMAIN edges}

AllEndpointsDeclared ==
  \A n \in DOMAIN edges : edges[n].source \in vertices /\ edges[n].dest \in vertices

NonNegativeWeights == \A n \in DOMAIN edges : edges[n].weight >= 0

HasEdge(u, v) == \E n \in DOMAIN edges : edges[n].source = u /\ edges[n].dest = v

EdgeWeights(u, v) ==
  {edges[n].weight : n \in {m \in DOMAIN edges : edges[m].source = u /\ edges[m].dest = v}}

SetMin(S) == CHOOSE x \in S : \A y \in S : x <= y

\* The lightest edge u->v (parallel edges are permitted).
MinW(u, v) == SetMin(EdgeWeights(u, v))

\* p is a sequence of vertices each joined to the next by an edge.
IsWalk(p) == \A n \in 1 .. (Len(p) - 1) : HasEdge(p[n], p[n + 1])

RECURSIVE WalkWeight(_)
\* Least total weight of the edges along the walk p.
WalkWeight(p) ==
  IF Len(p) <= 1 THEN 0
  ELSE MinW(p[1], p[2]) + WalkWeight(Tail(p))

RECURSIVE WalkSums(_)
\* Every total weight the edges along the walk p can have.
WalkSums(p) ==
  IF Len(p) <= 1 THEN {0}
  ELSE {w + r : w \in EdgeWeights(p[1], p[2]), r \in WalkSums(Tail(p))}

\* The simple paths from s to t (no vertex twice); <<s>> is the path from s to s.
SimplePaths(s, t) ==
  {p \in UNION {[1 .. n -> AllIds] : n \in 1 .. Cardinality(AllIds)} :
     /\ p[1] = s
     /\ p[Len(p)] = t
     /\ \A m, n \in DOMAIN p : m # n => p[m] # p[n]
     /\ IsWalk(p)}

HasPath(s, t) == SimplePaths(s, t) # {}

\* Least total weight of a path from s to t (defined when HasPath(s, t)).
MinDist(s, t) == SetMin({WalkWeight(p) : p \in SimplePaths(s, t)})

\* v lies on a cycle of negative total weight.
OnNegativeCycle(v) ==
  \E u \in AllIds :
    /\ HasEdge(u, v)
    /\ \E p \in SimplePaths(v, u) : WalkWeight(p) + MinW(u, v) < 0

HasNegativeCycle == \E v \in AllIds : OnNegativeCycle(v)

NegativeCycleReachable == \E v \in AllIds : HasPath(start_id, v) /\ OnNegativeCycle(v)

IsScenario == vertices = ScenarioVertices /\ edges \in ScenarioEdgeLists

BFDone == Len(bf_result) > 0
\* bellman_ford has just ended; its result stays as it is while dijkstra runs.
BFEnded == pc = "bf_done"
BFReturned == BFDone /\ bf_result[1] = "return"
DJDone == Len(dj_result) > 0
DJReturnedPath == DJDone /\ dj_result[1] = "return"
DJReturnedNone == dj_result = <<"return_none">>

\* ------------------------------------------------------------ specification
Init ==
  /\ \/ /\ \E n \in 1 .. NumVertices : vertices = 0 .. (n - 1)
        /\ edges \in EdgeLists
        /\ start_id \in Ids
     \/ /\ vertices = ScenarioVertices
        /\ edges \in ScenarioEdgeLists
        /\ start_id \in ScenarioVertices
  /\ pc = "start"
  /\ dists = <<>>
  /\ prevs = <<>>
  /\ i = 0
  /\ k = 0
  /\ bf_result = <<>>
  /\ endID = None
  /\ dj_dists = <<>>
  /\ dj_prevs = <<>>
  /\ nodePQ = <<>>
  /\ currentNode = None
  /\ j = 0
  /\ path_back = <<>>
  /\ puts = <<>>
  /\ dj_result = <<>>
  /\ a = <<>>
  /\ a_in = <<>>
  /\ qs_low = 0
  /\ qs_high = 0
  /\ qs_stack = <<>>
  /\ pivot = None
  /\ idx_l = 0
  /\ idx_r = 0

Next ==
  \/ BFInit
  \/ BFRelax
  \/ BFCheck
  \/ BFReturn
  \/ DJInit
  \/ DJPop
  \/ DJEdge
  \/ DJEnd
  \/ DJWalk

Spec == Init /\ [][Next]_vars

\* Both functions run on one thread: while a step is possible, one is taken.
SpecFair == Init /\ [][Next]_vars /\ WF_vars(Next)

\* quicksort(a, low, high) called on a list with 0 <= low <= high <= len(a).
QSInit ==
  /\ a \in Lists
  /\ a_in = a
  /\ qs_low \in 0 .. Len(a)
  /\ qs_high \in qs_low .. Len(a)
  /\ qs_stack = <<Frame(qs_low, qs_high)>>
  /\ pc = "qs_call"
  /\ pivot = None
  /\ idx_l = 0
  /\ idx_r = 0
  /\ vertices = {}
  /\ edges = <<>>
  /\ start_id = 0
  /\ dists = <<>>
  /\ prevs = <<>>
  /\ i = 0
  /\ k = 0
  /\ bf_result = <<>>
  /\ endID = None
  /\ dj_dists = <<>>
  /\ dj_prevs = <<>>
  /\ nodePQ = <<>>
  /\ currentNode = None
  /\ j = 0
  /\ path_back = <<>>
  /\ puts = <<>>
  /\ dj_result = <<>>

QSNext ==
  \/ QSEnter
  \/ QSScanLeft
  \/ QSScanRight
  \/ QSTest
  \/ QSRecurseLeft
  \/ QSReturn

\* The call runs on one thread: while a step is possible, one is taken.
SpecQS == QSInit /\ [][QSNext]_vars /\ WF_vars(QSNext)

\* ------------------------------------------------------------------ claims
DeclaredCall == start_id \in vertices /\ endID \in vertices

\* C1 (as stated): on a graph with weights >= 0, for a target other than the
\* source and reachable from it, dijkstra returns the least total weight of a
\* source-to-target path together with a path of that weight; on the documented
\* example, from 0 to 3, it returns the path [0,1,2,3] and the distance 4.
C1_DijkstraReturnsShortest ==
  (DJDone /\ AllEndpointsDeclared /\ NonNegativeWeights /\ DeclaredCall
     /\ endID # start_id /\ HasPath(start_id, endID))
  => /\ DJReturnedPath
     /\ dj_result[3] = MinDist(start_id, endID)
     /\ dj_result[2] \in SimplePaths(start_id, endID)
     /\ WalkWeight(dj_result[2]) = dj_result[3]
     /\ (vertices = ScenarioVertices /\ edges = ScenarioEdges
           /\ start_id = 0 /\ endID = 3)
        => dj_result = <<"return", <<0, 1, 2, 3>>, 4>>

\* C2 (as stated): for every vertex s of the graph, dijkstra(g, s, s) returns
\* the path [s] and the distance 0.
C2_SourceIsTarget ==
  (DJDone /\ DeclaredCall /\ endID = start_id)
  => dj_result = <<"return", <<start_id>>, 0>>

\* C3: with every edge endpoint declared, bellman_ford raises
\* NegativeEdgeCycleError (and returns no maps) when a cycle of negative total
\* weight is reachable from start, and returns normally when the graph has no
\* cycle of negative total weight.
C3_NegativeCycleRaises ==
  (BFEnded /\ AllEndpointsDeclared)
  => /\ NegativeCycleReachable => bf_result[1] = "NegativeEdgeCycleError"
     /\ ~HasNegativeCycle => BFReturned

\* A cycle of negative weight that the start vertex reaches but is not on.
C3_Witness ==
  /\ BFDone /\ AllEndpointsDeclared /\ start_id \in vertices
  /\ NegativeCycleReachable /\ ~OnNegativeCycle(start_id)
  /\ bf_result[1] = "NegativeEdgeCycleError"

\* C4: with no negative cycle reachable from start, bellman_ford returns, for
\* every declared vertex, the least total weight of a path from start, and
\* +infinity with predecessor None where there is no path, whatever the order
\* of the edge list; on the documented example it returns {0:0, 1:1, 2:3, 3:4}.
C4_BellmanFordDistances ==
  (BFEnded /\ AllEndpointsDeclared /\ start_id \in vertices
     /\ ~NegativeCycleReachable)
  => /\ BFReturned
     /\ DOMAIN bf_result[2] = vertices
     /\ \A v \in vertices :
          IF HasPath(start_id, v)
          THEN bf_result[2][v] = MinDist(start_id, v)
          ELSE bf_result[2][v] = Infinity /\ bf_result[3][v] = None
     /\ (IsScenario /\ start_id = 0)
        => bf_result[2] = (0 :> 0 @@ 1 :> 1 @@ 2 :> 3 @@ 3 :> 4)

\* A returned map with an entry that needed a second pass over the edge list
\* (its edge precedes the edge into its predecessor) and an unreached vertex.
C4_Witness ==
  /\ BFReturned /\ AllEndpointsDeclared /\ start_id \in vertices
  /\ ~NegativeCycleReachable
  /\ \E v \in vertices : ~HasPath(start_id, v)
  /\ \E m, n \in DOMAIN edges :
       /\ m < n
       /\ edges[n].source = start_id /\ edges[n].dest = edges[m].source
       /\ edges[m].dest # start_id /\ edges[m].dest # edges[m].source
       /\ edges[m].source # start_id
       /\ bf_result[3][edges[m].dest] = edges[m].source

\* C5 (as stated): with weights >= 0 and the target reachable from the source,
\* the distance dijkstra returns equals dists[target] of bellman_ford run on
\* the same vertices and edges from the same source.
C5_DijkstraAgreesWithBellmanFord ==
  (DJDone /\ AllEndpointsDeclared /\ NonNegativeWeights /\ DeclaredCall
     /\ HasPath(start_id, endID))
  => /\ BFReturned
     /\ DJReturnedPath
     /\ dj_result[3] = bf_result[2][endID]

\* C6 (as stated): a path dijkstra returns on a graph with weights >= 0 starts
\* at the source, ends at the target, follows edges of the graph, and the
\* returned distance is the sum of the weights of the edges along it.
C6_PathMatchesDistance ==
  (DJReturnedPath /\ NonNegativeWeights)
  => LET path == dj_result[2] IN
       /\ path[1] = start_id
       /\ path[Len(path)] = endID
       /\ IsWalk(path)
       /\ dj_result[3] \in WalkSums(path)

\* C7: for a declared source and a declared target other than the source, on a
\* graph whose edges join declared nodes, dijkstra returns (None, None) exactly
\* when no directed path leads from the source to the target.
C7_NoneIffUnreachable ==
  (DJDone /\ AllEndpointsDeclared /\ DeclaredCall /\ endID # start_id)
  => (DJReturnedNone <=> ~HasPath(start_id, endID))

\* (None, None) for a target without incoming edges, edges leaving the source.
C7_Witness ==
  /\ DJReturnedNone /\ AllEndpointsDeclared /\ DeclaredCall /\ endID # start_id
  /\ NodeEdges(start_id) # <<>>
  /\ \A n \in DOMAIN edges : edges[n].dest # endID

\* C8 (as stated): bellman_ford with an undeclared start id, and dijkstra with
\* an undeclared start or end id, end in a lookup error and return nothing.
C8_UnknownIdIsKeyError ==
  /\ (BFDone /\ start_id \notin vertices) => bf_result[1] = "KeyError"
  /\ (DJDone /\ ~DeclaredCall) => dj_result[1] = "KeyError"

\* C9 (as stated): bellman_ford on an edge list with an undeclared source or
\* destination id completes without a lookup error, and the maps it returns
\* have exactly the declared vertex ids as keys.
C9_UndeclaredEndpointsTolerated ==
  (BFDone /\ ~AllEndpointsDeclared)
  => /\ bf_result[1] # "KeyError"
     /\ BFReturned =>
          DOMAIN bf_result[2] = vertices /\ DOMAIN bf_result[3] = vertices

\* C10: when the only cycles of negative weight lie out of reach of start,
\* bellman_ford raises nothing: it returns, with distance +infinity and
\* predecessor None for every vertex of such a cycle.
C10_UnreachableCycleIgnored ==
  (BFEnded /\ AllEndpointsDeclared /\ HasNegativeCycle /\ ~NegativeCycleReachable)
  => /\ BFReturned
     /\ \A v \in vertices :
          OnNegativeCycle(v) =>
            bf_result[2][v] = Infinity /\ bf_result[3][v] = None

\* A negative cycle through two vertices, neither reachable from start.
C10_Witness ==
  /\ BFReturned /\ AllEndpointsDeclared /\ start_id \in vertices
  /\ ~NegativeCycleReachable
  /\ \E u, v \in vertices :
       /\ u # v /\ HasEdge(u, v) /\ HasEdge(v, u)
       /\ MinW(u, v) + MinW(v, u) < 0
       /\ bf_result[2][u] = Infinity /\ bf_result[2][v] = Infinity

\* Number of positions lo < n <= hi of the list s that hold the value v.
Count(s, lo, hi, v) == Cardinality({n \in (lo + 1) .. hi : s[n] = v})

\* What quicksort has to have done when the caller's call returns.
QSSorted ==
  /\ Len(a) = Len(a_in)
  /\ \A n \in (qs_low + 1) .. (qs_high - 1) : a[n] <= a[n + 1]
  /\ \A v \in Values : Count(a, qs_low, qs_high, v) = Count(a_in, qs_low, qs_high, v)
  /\ \A n \in DOMAIN a : (n <= qs_low \/ n > qs_high) => a[n] = a_in[n]

\* What _quicksort_partition has to return on the range of the innermost frame.
QSPartitioned ==
  /\ Top.high >= Top.low + 2
  /\ Top.low < Top.idx_p /\ Top.idx_p < Top.high
  /\ \A m \in (Top.low + 1) .. Top.idx_p :
       \A n \in (Top.idx_p + 1) .. Top.high : a[m] <= a[n]

\* C11: for 0 <= low <= high <= len(a), quicksort(a, low, high) terminates and
\* leaves a[low:high] a non-decreasing permutation of what it held, the rest of
\* the list untouched; every _quicksort_partition call (on at least 2 elements)
\* returns p with low < p < high and nothing in a[low:p] above anything in
\* a[p:high].
C11_QuicksortSorts ==
  /\ [](/\ pc # "qs_error"
        /\ pc = "qs_partitioned" => QSPartitioned
        /\ pc = "qs_done" => QSSorted)
  /\ <>(pc = "qs_done")

\* A sub-range of three or more elements, out of order, sorted inside a longer list.
C11_Witness ==
  /\ pc = "qs_done"
  /\ qs_high >= qs_low + 3 /\ (qs_low > 0 \/ qs_high < Len(a))
  /\ a # a_in
  /\ QSSorted

BFSearching == pc \in {"bf_relax", "bf_check", "bf_return", "bf_done"}
DJSearching == pc \in {"dj_pop", "dj_edge", "dj_end", "dj_walk"} \/ DJDone
DJInLoop == pc \in {"dj_pop", "dj_edge"}

\* C12 (as stated): in both searches the recorded distance of the source is 0
\* right after the initialisation and never greater than 0 afterwards, edges
\* back into the source and self-loops on it included.
C12_SourceDistanceAtMostZero ==
  /\ BFSearching =>
       /\ dists[start_id] <= 0
       /\ (pc = "bf_relax" /\ i = 1 /\ k = 1) => dists[start_id] = 0
  /\ (DJSearching /\ NonNegativeWeights) =>
       /\ dj_dists[start_id] <= 0
       /\ (pc = "dj_pop" /\ currentNode = None) => dj_dists[start_id] = 0

\* C13 (as stated): in every state of dijkstra's main loop, every vertex v with
\* a predecessor entry has dists[v] = dists[prevs[v]] + the weight of an edge
\* prevs[v] -> v.
C13_PredecessorConsistent ==
  (DJInLoop /\ NonNegativeWeights)
  => \A v \in DOMAIN dj_prevs :
       dj_prevs[v] # None =>
         \E w \in EdgeWeights(dj_prevs[v], v) :
           dj_dists[v] = dj_dists[dj_prevs[v]] + w

\* C14: with no negative cycle reachable from start, after every relaxation
\* step of bellman_ford each recorded distance is +infinity or the total weight
\* of a path from start to that vertex, so never below the least such weight.
C14_NeverUnderestimates ==
  (BFSearching /\ ~NegativeCycleReachable)
  => \A v \in DOMAIN dists :
       \/ dists[v] = Infinity
       \/ /\ \E p \in SimplePaths(start_id, v) : dists[v] \in WalkSums(p)
          /\ dists[v] >= MinDist(start_id, v)

\* Between two relaxations: a finite distance that a later step still lowers.
C14_Witness ==
  /\ pc = "bf_relax" /\ ~NegativeCycleReachable
  /\ \E v \in DOMAIN dists :
       /\ dists[v] # Infinity
       /\ dists[v] > MinDist(start_id, v)

\* A step taken after the main loop leaves prevs and the put counts alone.
NothingDiscoveredAfterLoop ==
  pc \in {"dj_end", "dj_walk"} => (dj_prevs' = dj_prevs /\ puts' = puts)

\* C15: dijkstra terminates. Every node other than the source is put on the
\* queue at most once, the source at most twice; the loop ends with the queue
\* empty or the target popped, and nothing is discovered afterwards; the walk
\* back takes at most |nodes| - 1 steps and never meets an unset predecessor.
C15_DijkstraTerminates ==
  /\ [](/\ \A v \in DOMAIN puts : puts[v] <= (IF v = start_id THEN 2 ELSE 1)
        /\ pc = "dj_end" => (nodePQ = <<>> \/ currentNode = endID)
        /\ Len(path_back) <= Cardinality(vertices)
        /\ DJDone => dj_result[1] # "AttributeError")
  /\ [][NothingDiscoveredAfterLoop]_vars
  /\ <>(pc = "dj_done")

\* The source put twice (an edge leads back into it) and a walk back of
\* |nodes| - 1 steps.
C15_Witness ==
  /\ DJReturnedPath
  /\ puts[start_id] = 2
  /\ Cardinality(vertices) >= 2
  /\ Len(path_back) = Cardinality(vertices)

====
